---- MODULE Spec2Model ----
(***************************************************************************)
(* A model of AceButton (src/src/AceButton.cpp): the per-button debouncing *)
(* and gesture classification state machine.  One Poll step is one call of *)
(* AceButton::checkState(buttonState) with the clock value it reads.       *)
(***************************************************************************)
EXTENDS Integers, Sequences, FiniteSets, TLC

VARIABLES
  mFlags,               \* AceButton::mFlags, as the set of the flags that are set
  mLastButtonState,     \* AceButton::mLastButtonState
  mLastDebounceTime,    \* AceButton::mLastDebounceTime
  mLastPressTime,       \* AceButton::mLastPressTime
  mLastClickTime,       \* AceButton::mLastClickTime
  mLastRepeatPressTime, \* AceButton::mLastRepeatPressTime
  mLastHeartBeatTime,   \* AceButton::mLastHeartBeatTime
  features,             \* ButtonConfig: the enabled features
  config,               \* ButtonConfig: the delays and intervals
  clock,                \* the value of the latest ButtonConfig::getClock()
  buttonState,          \* the raw level handed to the latest checkState()
  dispatched,           \* the events the latest checkState() dispatched, in order
  polls,                \* number of checkState() calls made so far (capped)
  prev,                 \* history: the button as the latest checkState() found it
  hold,                 \* history: the hold begun by the latest Pressed event
  rel,                  \* history: the latest confirmed release
  window,               \* history: the latest debounce window
  script                \* position in the scripted scenario (0: not scripted)

button == <<mFlags, mLastButtonState, mLastDebounceTime, mLastPressTime,
            mLastClickTime, mLastRepeatPressTime, mLastHeartBeatTime>>
vars == <<button, features, config, clock, buttonState, dispatched, polls,
          prev, hold, rel, window, script>>

-----------------------------------------------------------------------------
\* Bounds of the model.
MaxTime == 9
MaxStep == 2
MaxPolls == 2

-----------------------------------------------------------------------------
\* Levels.
HIGH == 1
LOW == 0
kButtonStateUnknown == 127
Levels == {LOW, HIGH}

\* Event types (sEventNames).
kEventPressed == "Pressed"
kEventReleased == "Released"
kEventClicked == "Clicked"
kEventDoubleClicked == "DoubleClicked"
kEventLongPressed == "LongPressed"
kEventRepeatPressed == "RepeatPressed"
kEventLongReleased == "LongReleased"
kEventHeartBeat == "HeartBeat"

\* Flags of mFlags.
kFlagDefaultReleasedState == "fDefaultReleasedState"
kFlagDebouncing == "fDebouncing"
kFlagPressed == "fPressed"
kFlagClicked == "fClicked"
kFlagDoubleClicked == "fDoubleClicked"
kFlagLongPressed == "fLongPressed"
kFlagRepeatPressed == "fRepeatPressed"
kFlagClickPostponed == "fClickPostponed"
kFlagHeartRunning == "fHeartRunning"

\* Features of ButtonConfig.
kFeatureClick == "Click"
kFeatureDoubleClick == "DoubleClick"
kFeatureLongPress == "LongPress"
kFeatureRepeatPress == "RepeatPress"
kFeatureSuppressAfterClick == "SuppressAfterClick"
kFeatureSuppressAfterDoubleClick == "SuppressAfterDoubleClick"
kFeatureSuppressAfterLongPress == "SuppressAfterLongPress"
kFeatureSuppressAfterRepeatPress == "SuppressAfterRepeatPress"
kFeatureSuppressClickBeforeDoubleClick == "SuppressClickBeforeDoubleClick"
kFeatureHeartBeat == "HeartBeat"

-----------------------------------------------------------------------------
\* The button as a record b, threaded through the checkXxx() functions;
\* b.events collects the events dispatched during the current checkState().

isFeature(f) == f \in features
getDebounceDelay == config.debounceDelay
getClickDelay == config.clickDelay
getDoubleClickDelay == config.doubleClickDelay
getLongPressDelay == config.longPressDelay
getRepeatPressDelay == config.repeatPressDelay
getRepeatPressInterval == config.repeatPressInterval
getHeartBeatInterval == config.heartBeatInterval

isFlag(b, f) == f \in b.mFlags
setFlag(b, f) == [b EXCEPT !.mFlags = @ \cup {f}]
clearFlag(b, f) == [b EXCEPT !.mFlags = @ \ {f}]
getLastButtonState(b) == b.mLastButtonState

getDefaultReleasedState(b) ==
  IF isFlag(b, kFlagDefaultReleasedState) THEN HIGH ELSE LOW

handleEvent(b, eventType) ==
  [b EXCEPT !.events =
     Append(@, [eventType |-> eventType, buttonState |-> getLastButtonState(b)])]

checkHeartBeat(b, now) ==
  IF ~isFeature(kFeatureHeartBeat) THEN b
  ELSE IF ~isFlag(b, kFlagHeartRunning)
    THEN [setFlag(b, kFlagHeartRunning) EXCEPT !.mLastHeartBeatTime = now]
  ELSE IF now - b.mLastHeartBeatTime >= getHeartBeatInterval
    THEN [handleEvent(b, kEventHeartBeat) EXCEPT !.mLastHeartBeatTime = now]
  ELSE b

\* checkDebounced() restarting the window at every poll that falls inside it.
checkDebounced_restarts(b, now, level) ==
  IF isFlag(b, kFlagDebouncing)
    THEN IF now - b.mLastDebounceTime >= getDebounceDelay
           THEN [ret |-> TRUE, b |-> clearFlag(b, kFlagDebouncing)]
           ELSE [ret |-> FALSE, b |-> [b EXCEPT !.mLastDebounceTime = now]]
    ELSE IF level = getLastButtonState(b)
           THEN [ret |-> TRUE, b |-> b]
           ELSE [ret |-> FALSE,
                 b |-> [setFlag(b, kFlagDebouncing) EXCEPT !.mLastDebounceTime = now]]

\* checkDebounced() closing the window at the first poll after the one that
\* opened it.
checkDebounced_noWait(b, now, level) ==
  IF isFlag(b, kFlagDebouncing)
    THEN [ret |-> TRUE, b |-> clearFlag(b, kFlagDebouncing)]
    ELSE IF level = getLastButtonState(b)
           THEN [ret |-> TRUE, b |-> b]
           ELSE [ret |-> FALSE,
                 b |-> [setFlag(b, kFlagDebouncing) EXCEPT !.mLastDebounceTime = now]]

\* Returns [ret |-> the function's result, b |-> the button afterwards].
checkDebounced(b, now, level) ==
  IF isFlag(b, kFlagDebouncing)
    THEN IF now - b.mLastDebounceTime >= getDebounceDelay
           THEN [ret |-> TRUE, b |-> clearFlag(b, kFlagDebouncing)]
           ELSE [ret |-> FALSE, b |-> b]
    ELSE IF level = getLastButtonState(b)
           THEN [ret |-> TRUE, b |-> b]
           ELSE [ret |-> FALSE,
                 b |-> [setFlag(b, kFlagDebouncing) EXCEPT !.mLastDebounceTime = now]]

\* checkInitialized() letting the first level through as a change.
checkInitialized_fires(b, level) == [ret |-> TRUE, b |-> b]

\* checkInitialized() absorbing the first level without storing it.
checkInitialized_keepsUnknown(b, level) ==
  IF b.mLastButtonState # kButtonStateUnknown
    THEN [ret |-> TRUE, b |-> b]
    ELSE [ret |-> FALSE, b |-> b]

checkInitialized(b, level) ==
  IF b.mLastButtonState # kButtonStateUnknown
    THEN [ret |-> TRUE, b |-> b]
    ELSE [ret |-> FALSE, b |-> [b EXCEPT !.mLastButtonState = level]]

\* checkLongPress() not looking at the LongPressed flag.
checkLongPress_everyPoll(b, now, level) ==
  IF level = getDefaultReleasedState(b) THEN b
  ELSE IF isFlag(b, kFlagPressed) /\ now - b.mLastPressTime >= getLongPressDelay
    THEN handleEvent(setFlag(b, kFlagLongPressed), kEventLongPressed)
  ELSE b

checkLongPress(b, now, level) ==
  IF level = getDefaultReleasedState(b) THEN b
  ELSE IF isFlag(b, kFlagPressed) /\ ~isFlag(b, kFlagLongPressed)
            /\ now - b.mLastPressTime >= getLongPressDelay
    THEN handleEvent(setFlag(b, kFlagLongPressed), kEventLongPressed)
  ELSE b

\* checkRepeatPress() not refreshing mLastRepeatPressTime at a repeat.
checkRepeatPress_noRefresh(b, now, level) ==
  IF level = getDefaultReleasedState(b) THEN b
  ELSE IF ~isFlag(b, kFlagPressed) THEN b
  ELSE IF isFlag(b, kFlagRepeatPressed)
    THEN IF now - b.mLastRepeatPressTime >= getRepeatPressInterval
           THEN handleEvent(b, kEventRepeatPressed)
           ELSE b
    ELSE IF now - b.mLastPressTime >= getRepeatPressDelay
           THEN [handleEvent(setFlag(b, kFlagRepeatPressed), kEventRepeatPressed)
                   EXCEPT !.mLastRepeatPressTime = now]
           ELSE b

checkRepeatPress(b, now, level) ==
  IF level = getDefaultReleasedState(b) THEN b
  ELSE IF ~isFlag(b, kFlagPressed) THEN b
  ELSE IF isFlag(b, kFlagRepeatPressed)
    THEN IF now - b.mLastRepeatPressTime >= getRepeatPressInterval
           THEN [handleEvent(b, kEventRepeatPressed)
                   EXCEPT !.mLastRepeatPressTime = now]
           ELSE b
    ELSE IF now - b.mLastPressTime >= getRepeatPressDelay
           THEN [handleEvent(setFlag(b, kFlagRepeatPressed), kEventRepeatPressed)
                   EXCEPT !.mLastRepeatPressTime = now]
           ELSE b

\* checkPressed() dispatching Pressed without setting the Pressed flag.
checkPressed_noFlag(b, now, level) ==
  IF level = getDefaultReleasedState(b) THEN b
  ELSE handleEvent([b EXCEPT !.mLastPressTime = now], kEventPressed)

checkPressed(b, now, level) ==
  IF level = getDefaultReleasedState(b) THEN b
  ELSE handleEvent(setFlag([b EXCEPT !.mLastPressTime = now], kFlagPressed),
                   kEventPressed)

\* checkDoubleClicked() leaving the postponed click in place.
checkDoubleClicked_keepsPostponed(b, now) ==
  IF ~isFlag(b, kFlagClicked) THEN clearFlag(b, kFlagDoubleClicked)
  ELSE IF now - b.mLastClickTime >= getDoubleClickDelay
    THEN clearFlag(b, kFlagDoubleClicked)
  ELSE handleEvent(setFlag(b, kFlagDoubleClicked), kEventDoubleClicked)

checkDoubleClicked(b, now) ==
  IF ~isFlag(b, kFlagClicked) THEN clearFlag(b, kFlagDoubleClicked)
  ELSE IF now - b.mLastClickTime >= getDoubleClickDelay
    THEN clearFlag(b, kFlagDoubleClicked)
  ELSE handleEvent(setFlag(clearFlag(b, kFlagClickPostponed), kFlagDoubleClicked),
                   kEventDoubleClicked)

\* checkClicked() going on to the single click after a double click.
checkClicked_noDoubleGuard(b, now) ==
  IF now - b.mLastPressTime >= getClickDelay THEN clearFlag(b, kFlagClicked)
  ELSE LET b1 == IF isFeature(kFeatureDoubleClick)
                   THEN checkDoubleClicked(b, now) ELSE b
           b2 == setFlag([b1 EXCEPT !.mLastClickTime = now], kFlagClicked)
       IN IF isFeature(kFeatureSuppressClickBeforeDoubleClick)
            THEN setFlag(b2, kFlagClickPostponed)
            ELSE handleEvent(b2, kEventClicked)

\* checkClicked() evaluating the click however long the hold was.
checkClicked_anyHold(b, now) ==
  LET b1 == IF isFeature(kFeatureDoubleClick)
              THEN checkDoubleClicked(b, now) ELSE b
  IN IF isFlag(b1, kFlagDoubleClicked) THEN clearFlag(b1, kFlagClicked)
     ELSE LET b2 == setFlag([b1 EXCEPT !.mLastClickTime = now], kFlagClicked)
          IN IF isFeature(kFeatureSuppressClickBeforeDoubleClick)
               THEN setFlag(b2, kFlagClickPostponed)
               ELSE handleEvent(b2, kEventClicked)

\* checkClicked() leaving Clicked set after a double click.
checkClicked_keepsClicked(b, now) ==
  IF now - b.mLastPressTime >= getClickDelay THEN clearFlag(b, kFlagClicked)
  ELSE LET b1 == IF isFeature(kFeatureDoubleClick)
                   THEN checkDoubleClicked(b, now) ELSE b
       IN IF isFlag(b1, kFlagDoubleClicked) THEN b1
          ELSE LET b2 == setFlag([b1 EXCEPT !.mLastClickTime = now], kFlagClicked)
               IN IF isFeature(kFeatureSuppressClickBeforeDoubleClick)
                    THEN setFlag(b2, kFlagClickPostponed)
                    ELSE handleEvent(b2, kEventClicked)

checkClicked(b, now) ==
  IF now - b.mLastPressTime >= getClickDelay THEN clearFlag(b, kFlagClicked)
  ELSE LET b1 == IF isFeature(kFeatureDoubleClick)
                   THEN checkDoubleClicked(b, now) ELSE b
       IN IF isFlag(b1, kFlagDoubleClicked) THEN clearFlag(b1, kFlagClicked)
          ELSE LET b2 == setFlag([b1 EXCEPT !.mLastClickTime = now], kFlagClicked)
               IN IF isFeature(kFeatureSuppressClickBeforeDoubleClick)
                    THEN setFlag(b2, kFlagClickPostponed)
                    ELSE handleEvent(b2, kEventClicked)

\* checkReleased() reading the flags after it has cleared them.
checkReleased_clearsFirst(b, now, level) ==
  IF level # getDefaultReleasedState(b) THEN b
  ELSE LET b1 == IF isFeature(kFeatureClick) \/ isFeature(kFeatureDoubleClick)
                   THEN checkClicked(b, now) ELSE b
           b2 == [b1 EXCEPT !.mFlags = @ \ {kFlagPressed, kFlagDoubleClicked,
                                            kFlagLongPressed, kFlagRepeatPressed}]
           wasLongPressed == isFlag(b2, kFlagLongPressed)
           suppress ==
             \/ isFlag(b2, kFlagLongPressed)
                  /\ isFeature(kFeatureSuppressAfterLongPress)
             \/ isFlag(b2, kFlagRepeatPressed)
                  /\ isFeature(kFeatureSuppressAfterRepeatPress)
             \/ isFlag(b2, kFlagClicked) /\ isFeature(kFeatureSuppressAfterClick)
             \/ isFlag(b2, kFlagDoubleClicked)
                  /\ isFeature(kFeatureSuppressAfterDoubleClick)
       IN IF suppress
            THEN IF wasLongPressed THEN handleEvent(b2, kEventLongReleased) ELSE b2
            ELSE handleEvent(b2, kEventReleased)

\* checkReleased() leaving the LongPressed and RepeatPressed flags set.
checkReleased_keepsHoldFlags(b, now, level) ==
  IF level # getDefaultReleasedState(b) THEN b
  ELSE LET b1 == IF isFeature(kFeatureClick) \/ isFeature(kFeatureDoubleClick)
                   THEN checkClicked(b, now) ELSE b
           wasLongPressed == isFlag(b1, kFlagLongPressed)
           suppress ==
             \/ isFlag(b1, kFlagLongPressed)
                  /\ isFeature(kFeatureSuppressAfterLongPress)
             \/ isFlag(b1, kFlagRepeatPressed)
                  /\ isFeature(kFeatureSuppressAfterRepeatPress)
             \/ isFlag(b1, kFlagClicked) /\ isFeature(kFeatureSuppressAfterClick)
             \/ isFlag(b1, kFlagDoubleClicked)
                  /\ isFeature(kFeatureSuppressAfterDoubleClick)
           b2 == [b1 EXCEPT !.mFlags = @ \ {kFlagPressed, kFlagDoubleClicked}]
       IN IF suppress
            THEN IF wasLongPressed THEN handleEvent(b2, kEventLongReleased) ELSE b2
            ELSE handleEvent(b2, kEventReleased)

\* checkReleased() leaving the DoubleClicked flag set.
checkReleased_keepsDoubleClicked(b, now, level) ==
  IF level # getDefaultReleasedState(b) THEN b
  ELSE LET b1 == IF isFeature(kFeatureClick) \/ isFeature(kFeatureDoubleClick)
                   THEN checkClicked(b, now) ELSE b
           wasLongPressed == isFlag(b1, kFlagLongPressed)
           suppress ==
             \/ isFlag(b1, kFlagLongPressed)
                  /\ isFeature(kFeatureSuppressAfterLongPress)
             \/ isFlag(b1, kFlagRepeatPressed)
                  /\ isFeature(kFeatureSuppressAfterRepeatPress)
             \/ isFlag(b1, kFlagClicked) /\ isFeature(kFeatureSuppressAfterClick)
             \/ isFlag(b1, kFlagDoubleClicked)
                  /\ isFeature(kFeatureSuppressAfterDoubleClick)
           b2 == [b1 EXCEPT !.mFlags = @ \ {kFlagPressed, kFlagLongPressed,
                                            kFlagRepeatPressed}]
       IN IF suppress
            THEN IF wasLongPressed THEN handleEvent(b2, kEventLongReleased) ELSE b2
            ELSE handleEvent(b2, kEventReleased)

checkReleased(b, now, level) ==
  IF level # getDefaultReleasedState(b) THEN b
  ELSE LET b1 == IF isFeature(kFeatureClick) \/ isFeature(kFeatureDoubleClick)
                   THEN checkClicked(b, now) ELSE b
           wasLongPressed == isFlag(b1, kFlagLongPressed)
           suppress ==
             \/ isFlag(b1, kFlagLongPressed)
                  /\ isFeature(kFeatureSuppressAfterLongPress)
             \/ isFlag(b1, kFlagRepeatPressed)
                  /\ isFeature(kFeatureSuppressAfterRepeatPress)
             \/ isFlag(b1, kFlagClicked) /\ isFeature(kFeatureSuppressAfterClick)
             \/ isFlag(b1, kFlagDoubleClicked)
                  /\ isFeature(kFeatureSuppressAfterDoubleClick)
           b2 == [b1 EXCEPT !.mFlags = @ \ {kFlagPressed, kFlagDoubleClicked,
                                            kFlagLongPressed, kFlagRepeatPressed}]
       IN IF suppress
            THEN IF wasLongPressed THEN handleEvent(b2, kEventLongReleased) ELSE b2
            ELSE handleEvent(b2, kEventReleased)

checkChanged(b, now, level) ==
  checkReleased(checkPressed([b EXCEPT !.mLastButtonState = level], now, level),
                now, level)

checkOrphanedClick(b, now) ==
  IF isFlag(b, kFlagClicked) /\ now - b.mLastClickTime >= getDoubleClickDelay
    THEN clearFlag(b, kFlagClicked)
    ELSE b

\* checkPostponedClick() leaving ClickPostponed set after the deferred Clicked.
checkPostponedClick_keepsFlag(b, now) ==
  IF isFlag(b, kFlagClickPostponed) /\ now - b.mLastClickTime >= getDoubleClickDelay
    THEN handleEvent(b, kEventClicked)
    ELSE b

checkPostponedClick(b, now) ==
  IF isFlag(b, kFlagClickPostponed) /\ now - b.mLastClickTime >= getDoubleClickDelay
    THEN clearFlag(handleEvent(b, kEventClicked), kFlagClickPostponed)
    ELSE b

\* checkEvent() running the click cleanup after the long press and the repeat
\* press checks.
checkEvent_cleanupLast(b, now, level) ==
  LET b1 == IF isFeature(kFeatureLongPress) THEN checkLongPress(b, now, level) ELSE b
      b2 == IF isFeature(kFeatureRepeatPress) THEN checkRepeatPress(b1, now, level) ELSE b1
      b3 == IF isFeature(kFeatureClick) \/ isFeature(kFeatureDoubleClick)
              THEN checkOrphanedClick(checkPostponedClick(b2, now), now)
              ELSE b2
  IN IF level # getLastButtonState(b3) THEN checkChanged(b3, now, level) ELSE b3

checkEvent(b, now, level) ==
  LET b1 == IF isFeature(kFeatureClick) \/ isFeature(kFeatureDoubleClick)
              THEN checkOrphanedClick(checkPostponedClick(b, now), now)
              ELSE b
      b2 == IF isFeature(kFeatureLongPress) THEN checkLongPress(b1, now, level) ELSE b1
      b3 == IF isFeature(kFeatureRepeatPress) THEN checkRepeatPress(b2, now, level) ELSE b2
  IN IF level # getLastButtonState(b3) THEN checkChanged(b3, now, level) ELSE b3

\* checkState() with the heart beat behind the debounce gate.
checkState_heartBehindGate(b, now, level) ==
  LET d == checkDebounced(b, now, level)
  IN IF d.ret
       THEN LET b1 == checkHeartBeat(d.b, now)
                i == checkInitialized(b1, level)
            IN IF i.ret THEN checkEvent(i.b, now, level) ELSE i.b
       ELSE d.b

checkState(b, now, level) ==
  LET b1 == checkHeartBeat(b, now)
      d == checkDebounced(b1, now, level)
  IN IF d.ret
       THEN LET i == checkInitialized(d.b, level)
            IN IF i.ret THEN checkEvent(i.b, now, level) ELSE i.b
       ELSE d.b

-----------------------------------------------------------------------------
\* The button of the current state, with no event dispatched yet.
Self ==
  [mFlags |-> mFlags, mLastButtonState |-> mLastButtonState,
   mLastDebounceTime |-> mLastDebounceTime, mLastPressTime |-> mLastPressTime,
   mLastClickTime |-> mLastClickTime,
   mLastRepeatPressTime |-> mLastRepeatPressTime,
   mLastHeartBeatTime |-> mLastHeartBeatTime, events |-> <<>>]

Min(a, b) == IF a < b THEN a ELSE b

\* The number of events of type e in the sequence ev.
Count(ev, e) == Cardinality({i \in DOMAIN ev : ev[i].eventType = e})
Has(ev, e) == \E i \in DOMAIN ev : ev[i].eventType = e

\* The levels of button b.
ReleasedLevel(b) == IF kFlagDefaultReleasedState \in b.mFlags THEN HIGH ELSE LOW
ActiveLevel(b) == IF kFlagDefaultReleasedState \in b.mFlags THEN LOW ELSE HIGH

\* Whether the debounce gate accepts a poll (now, level) of button b.
GateAccepts(b, now, level) ==
  IF kFlagDebouncing \in b.mFlags
    THEN now - b.mLastDebounceTime >= config.debounceDelay
    ELSE level = b.mLastButtonState

\* Whether the poll (now, level) of button b confirms a change to level.
ConfirmsChange(b, now, level) ==
  /\ GateAccepts(b, now, level)
  /\ b.mLastButtonState # kButtonStateUnknown
  /\ b.mLastButtonState # level
ConfirmsRelease(b, now, level) ==
  ConfirmsChange(b, now, level) /\ level = ReleasedLevel(b)

\* History of the hold begun by the latest Pressed event: whether it is still
\* going on, when it began, how many LongPressed events it got, whether an
\* accepted poll at the active level saw it longPressDelay old, and the times
\* of its first and latest RepeatPressed with the number of those after the first.
NoHold ==
  [active |-> FALSE, since |-> -1, longs |-> 0, due |-> FALSE,
   first |-> -1, last |-> -1, n |-> 0]

HoldAfter(b, h, now, level, ev) ==
  LET longs == Count(ev, kEventLongPressed)
      reps == Count(ev, kEventRepeatPressed)
      h1 == IF Has(ev, kEventPressed)
              THEN [NoHold EXCEPT !.active = TRUE, !.since = now]
              ELSE [h EXCEPT
                     !.active = @ /\ ~ConfirmsRelease(b, now, level),
                     !.due = @ \/ (/\ h.active
                                   /\ GateAccepts(b, now, level)
                                   /\ level = ActiveLevel(b)
                                   /\ now - h.since >= config.longPressDelay)]
  IN [h1 EXCEPT
       !.longs = Min(@ + longs, 2),
       !.first = IF @ = -1 /\ reps > 0 THEN now ELSE @,
       !.last = IF reps > 0 THEN now ELSE @,
       !.n = Min(@ + (IF h1.first = -1 THEN (IF reps > 0 THEN reps - 1 ELSE 0)
                                        ELSE reps), MaxTime)]

\* History of the latest confirmed release: when, whether it ended a hold
\* begun by a Pressed event, whether it came less than clickDelay after that
\* event, whether its poll dispatched DoubleClicked, whether the poll of the
\* release before it did, whether an accepted poll has since seen it
\* doubleClickDelay old, and whether a single click of a hold begun by a
\* Pressed event is pending: recorded at its release with no Clicked
\* dispatched, and no Clicked or DoubleClicked dispatched since.
NoRelease ==
  [time |-> -1, held |-> FALSE, quick |-> FALSE, dbl |-> FALSE,
   afterDbl |-> FALSE, expired |-> FALSE, pending |-> FALSE]

ReleaseAfter(b, h, r, now, level, ev) ==
  IF ConfirmsRelease(b, now, level)
    THEN [time |-> now,
          held |-> h.active,
          quick |-> h.active /\ now - h.since < config.clickDelay,
          dbl |-> Has(ev, kEventDoubleClicked),
          afterDbl |-> r.dbl,
          expired |-> FALSE,
          pending |->
            IF Has(ev, kEventDoubleClicked) THEN FALSE
            ELSE IF /\ isFeature(kFeatureClick) \/ isFeature(kFeatureDoubleClick)
                    /\ isFeature(kFeatureSuppressClickBeforeDoubleClick)
                    /\ h.active /\ now - h.since < config.clickDelay
                   THEN TRUE
                   ELSE r.pending /\ ~Has(ev, kEventClicked)]
    ELSE [r EXCEPT
            !.expired = @ \/ (/\ r.time # -1
                              /\ GateAccepts(b, now, level)
                              /\ now - r.time >= config.doubleClickDelay),
            !.pending = @ /\ ~Has(ev, kEventClicked)]

\* History of the latest debounce window: the raw level of the poll that
\* opened it and the time of the latest poll the gate rejected inside it whose
\* raw level was another one (-1: none).  It is forgotten at an accepted poll
\* that closes no window.
NoWindow == [level |-> kButtonStateUnknown, bounce |-> -1]

WindowAfter(b, w, now, level) ==
  IF kFlagDebouncing \in b.mFlags
    THEN IF GateAccepts(b, now, level) \/ level = w.level
           THEN w
           ELSE [w EXCEPT !.bounce = now]
    ELSE IF GateAccepts(b, now, level)
           THEN NoWindow
           ELSE [level |-> level, bounce |-> -1]

\* check(): read the clock and the pin, run checkState().
Check(now, level) ==
  \E r \in {checkState(Self, now, level)} :
     /\ mFlags' = r.mFlags
     /\ mLastButtonState' = r.mLastButtonState
     /\ mLastDebounceTime' = r.mLastDebounceTime
     /\ mLastPressTime' = r.mLastPressTime
     /\ mLastClickTime' = r.mLastClickTime
     /\ mLastRepeatPressTime' = r.mLastRepeatPressTime
     /\ mLastHeartBeatTime' = r.mLastHeartBeatTime
     /\ dispatched' = r.events
     /\ clock' = now
     /\ buttonState' = level
     /\ polls' = Min(polls + 1, MaxPolls)
     /\ prev' = Self
     /\ hold' = HoldAfter(Self, hold, now, level, r.events)
     /\ rel' = ReleaseAfter(Self, hold, rel, now, level, r.events)
     /\ window' = WindowAfter(Self, window, now, level)

Poll ==
  /\ \E now \in clock..Min(clock + MaxStep, MaxTime), level \in Levels :
       Check(now, level)
  /\ UNCHANGED <<features, config, script>>

\* The values a timestamp may hold before it is first written.
UninitTimes == {0, MaxTime}

\* init(pin, defaultReleasedState, id): the flags and the level are set, the
\* timestamps are left as they were.  mLastPressTime is the one timestamp the
\* code can compare before writing it (checkClicked() at the release of a
\* button found held), so it is drawn from UninitTimes; the others are
\* compared only under a flag that is set together with them.
init(defaultReleasedState) ==
  /\ mFlags = IF defaultReleasedState = HIGH THEN {kFlagDefaultReleasedState} ELSE {}
  /\ mLastButtonState = kButtonStateUnknown
  /\ mLastPressTime \in UninitTimes
  /\ mLastDebounceTime = 0
  /\ mLastClickTime = 0
  /\ mLastRepeatPressTime = 0
  /\ mLastHeartBeatTime = 0

\* Delays and intervals, scaled down; debounceDelay < clickDelay <
\* doubleClickDelay as in the defaults of ButtonConfig.
SmallConfig ==
  [debounceDelay |-> 1, clickDelay |-> 3, doubleClickDelay |-> 5,
   longPressDelay |-> 4, repeatPressDelay |-> 3, repeatPressInterval |-> 2,
   heartBeatInterval |-> 3]

\* Delays with a debounce window that holds more than one clock value.
DebounceConfig ==
  [debounceDelay |-> 2, clickDelay |-> 3, doubleClickDelay |-> 4,
   longPressDelay |-> 3, repeatPressDelay |-> 2, repeatPressInterval |-> 2,
   heartBeatInterval |-> 2]

\* Delays with doubleClickDelay > clickDelay + 3 * debounceDelay, as in the
\* defaults of ButtonConfig: a double click window long enough to hold a slow
\* click and a quick one after it.
WideConfig ==
  [debounceDelay |-> 1, clickDelay |-> 2, doubleClickDelay |-> 6,
   longPressDelay |-> 4, repeatPressDelay |-> 3, repeatPressInterval |-> 2,
   heartBeatInterval |-> 3]

\* The delays of the worked example (the others at the defaults of ButtonConfig).
ExampleConfig ==
  [debounceDelay |-> 20, clickDelay |-> 200, doubleClickDelay |-> 400,
   longPressDelay |-> 1000, repeatPressDelay |-> 1000,
   repeatPressInterval |-> 200, heartBeatInterval |-> 5000]

GestureFeatures ==
  {kFeatureClick, kFeatureDoubleClick, kFeatureLongPress, kFeatureRepeatPress}
SuppressAfterFeatures ==
  {kFeatureSuppressAfterClick, kFeatureSuppressAfterDoubleClick,
   kFeatureSuppressAfterLongPress, kFeatureSuppressAfterRepeatPress}
AllFeatures ==
  GestureFeatures \cup SuppressAfterFeatures
    \cup {kFeatureSuppressClickBeforeDoubleClick, kFeatureHeartBeat}

\* A freshly constructed button (released level among R) with one of the
\* feature sets of F and the delays c.
InitWith(R, F, c) ==
  /\ \E s \in R : init(s)
  /\ features \in F
  /\ config = c
  /\ clock = 0
  /\ buttonState = kButtonStateUnknown
  /\ dispatched = <<>>
  /\ polls = 0
  /\ prev = Self
  /\ hold = NoHold
  /\ rel = NoRelease
  /\ window = NoWindow
  /\ script = 0

-----------------------------------------------------------------------------
\* Spec: every gesture enabled, any combination of the suppress-after features.
Init ==
  InitWith(Levels, {GestureFeatures \cup S : S \in SUBSET SuppressAfterFeatures},
           SmallConfig)

Next == Poll

Spec == Init /\ [][Next]_vars

\* SpecDebounce: a debounce window of two clock values.
InitDebounce ==
  InitWith(Levels,
           {{}, {kFeatureHeartBeat}, {kFeatureClick, kFeatureLongPress},
            GestureFeatures \cup {kFeatureHeartBeat}, AllFeatures},
           DebounceConfig)

SpecDebounce == InitDebounce /\ [][Next]_vars

\* SpecClick: the click features, with and without postponement.
InitClick ==
  InitWith(Levels,
           {{kFeatureClick, kFeatureDoubleClick} \cup S :
              S \in SUBSET {kFeatureSuppressClickBeforeDoubleClick,
                            kFeatureSuppressAfterClick}}
             \cup {{kFeatureClick}, {kFeatureDoubleClick},
                   {kFeatureClick, kFeatureSuppressClickBeforeDoubleClick},
                   {kFeatureDoubleClick, kFeatureSuppressClickBeforeDoubleClick}},
           SmallConfig)

SpecClick == InitClick /\ [][Next]_vars

\* SpecHold: the features of a hold.
InitHold ==
  InitWith(Levels,
           SUBSET {kFeatureLongPress, kFeatureRepeatPress,
                   kFeatureSuppressAfterLongPress, kFeatureSuppressAfterRepeatPress},
           SmallConfig)

SpecHold == InitHold /\ [][Next]_vars

\* SpecHeart: with and without the heart beat.
InitHeart ==
  InitWith(Levels,
           {{}, {kFeatureHeartBeat}, {kFeatureClick, kFeatureLongPress},
            {kFeatureHeartBeat, kFeatureClick, kFeatureLongPress}},
           SmallConfig)

SpecHeart == InitHeart /\ [][Next]_vars

\* SpecFull: every gesture at once, with and without postponement of the click.
InitFull ==
  InitWith(Levels,
           {GestureFeatures \cup S :
              S \in SUBSET {kFeatureSuppressClickBeforeDoubleClick,
                            kFeatureSuppressAfterClick,
                            kFeatureSuppressAfterLongPress}}
             \cup {AllFeatures},
           SmallConfig)

SpecFull == InitFull /\ [][Next]_vars

\* SpecToggle: the Click and DoubleClick features are switched on and off
\* between polls.
InitToggle ==
  InitWith(Levels,
           {{kFeatureClick}, {kFeatureClick, kFeatureSuppressClickBeforeDoubleClick}},
           SmallConfig)

\* ButtonConfig::setFeature() or clearFeature() between two polls.
Reconfigure ==
  /\ \E f \in {kFeatureClick, kFeatureDoubleClick} :
       features' = IF f \in features THEN features \ {f} ELSE features \cup {f}
  /\ UNCHANGED <<button, config, clock, buttonState, dispatched, polls, prev,
                 hold, rel, window, script>>

NextToggle == Poll \/ Reconfigure

SpecToggle == InitToggle /\ [][NextToggle]_vars

\* SpecPostponed: the click postponed, with the wide double click window.
InitPostponed ==
  InitWith(Levels,
           {{kFeatureClick, kFeatureDoubleClick,
             kFeatureSuppressClickBeforeDoubleClick} \cup S :
              S \in SUBSET {kFeatureSuppressAfterClick,
                            kFeatureSuppressAfterDoubleClick}},
           WideConfig)

SpecPostponed == InitPostponed /\ [][Next]_vars

\* SpecExample: the polls of the worked example, on a button whose released
\* level is HIGH and whose only gesture feature is LongPress.
ExampleScript ==
  <<[t |-> 0, level |-> HIGH], [t |-> 5, level |-> LOW], [t |-> 30, level |-> LOW],
    [t |-> 1040, level |-> LOW], [t |-> 1100, level |-> HIGH],
    [t |-> 1125, level |-> HIGH]>>

InitExample ==
  InitWith({HIGH},
           {{kFeatureLongPress} \cup S :
              S \in SUBSET (SuppressAfterFeatures
                              \cup {kFeatureSuppressClickBeforeDoubleClick})},
           ExampleConfig)

PollExample ==
  /\ script < Len(ExampleScript)
  /\ Check(ExampleScript[script + 1].t, ExampleScript[script + 1].level)
  /\ script' = script + 1
  /\ UNCHANGED <<features, config>>

NextExample == PollExample

SpecExample == InitExample /\ [][NextExample]_vars

\* SpecWrap: a clock of ClockModulus values (a fixed-width unsigned clock,
\* scaled down) that is read first at WrapStart and wraps past its maximum
\* once: the polls span less than one full cycle of the clock, so the time
\* that truly passed between two of them is their difference modulo
\* ClockModulus.  The timestamps of the button are the values the clock
\* returned, held in a wider signed type (int64_t), as in the code.
ClockModulus == 8
WrapStart == 5

\* The ticks that truly passed from clock value t to clock value now.
TrueElapsed(t, now) == (now - t) % ClockModulus

InitWrap ==
  /\ \E s \in Levels : init(s)
  /\ features \in {{}, {kFeatureHeartBeat}, GestureFeatures \cup {kFeatureHeartBeat}}
  /\ config = SmallConfig
  /\ clock = WrapStart
  /\ buttonState = kButtonStateUnknown
  /\ dispatched = <<>>
  /\ polls = 0
  /\ prev = Self
  /\ hold = NoHold
  /\ rel = NoRelease
  /\ window = NoWindow
  /\ script = 0

PollWrap ==
  /\ \E d \in 0..MaxStep, level \in Levels :
       /\ TrueElapsed(WrapStart, clock) + d < ClockModulus
       /\ Check((clock + d) % ClockModulus, level)
  /\ UNCHANGED <<features, config, script>>

NextWrap == PollWrap

SpecWrap == InitWrap /\ [][NextWrap]_vars

-----------------------------------------------------------------------------
\* What the claims speak of.

\* The types of the events of ev, in order.
Types(ev) == [i \in DOMAIN ev |-> ev[i].eventType]

\* The events of ev other than HeartBeat.
Gestures(ev) == SelectSeq(Types(ev), LAMBDA e : e # kEventHeartBeat)

GestureFlags ==
  {kFlagPressed, kFlagLongPressed, kFlagRepeatPressed, kFlagClicked,
   kFlagDoubleClicked, kFlagClickPostponed}

\* The latest poll, as the button found it.
Polled == polls > 0
Accepted == Polled /\ GateAccepts(prev, clock, buttonState)
Rejected == Polled /\ ~GateAccepts(prev, clock, buttonState)

-----------------------------------------------------------------------------
\* C1 (as amended): in the worked example (released level HIGH, debounceDelay
\* 20, longPressDelay 1000, LongPress the only gesture feature) the polls at
\* t = 0, 5, 30, 1040 and 1100 dispatch nothing, the poll at t = 30 being the
\* first the gate accepts and only setting the level, and the poll at t = 1125
\* dispatches Released, with or without SuppressAfterLongPress.
C1_ExampleEvents ==
  /\ script \in 1..5 => dispatched = <<>>
  /\ script >= 3 => mLastButtonState # kButtonStateUnknown
  /\ script = 6 => Types(dispatched) = <<kEventReleased>>

C1_Witness ==
  /\ script = 6
  /\ kFeatureSuppressAfterLongPress \in features
  /\ Types(dispatched) = <<kEventReleased>>

\* C1 (as claimed): nothing at t = 0 and t = 5, Pressed at t = 30, LongPressed
\* at t = 1040, nothing at t = 1100, and at t = 1125 LongReleased with
\* SuppressAfterLongPress, Released without.
C1_AsClaimed ==
  /\ script \in {1, 2, 5} => dispatched = <<>>
  /\ script = 3 => Types(dispatched) = <<kEventPressed>>
  /\ script = 4 => Types(dispatched) = <<kEventLongPressed>>
  /\ script = 6 =>
       Types(dispatched) = IF kFeatureSuppressAfterLongPress \in features
                             THEN <<kEventLongReleased>> ELSE <<kEventReleased>>

\* C2: a poll the debounce gate rejects dispatches nothing but HeartBeat,
\* leaves the level, the gesture flags and the press, click and repeat times
\* as they were, and, when the window was already open, leaves it open with
\* its start unchanged, whatever raw level the poll carries.
C2_DebounceStability ==
  Rejected =>
    /\ Gestures(dispatched) = <<>>
    /\ mLastButtonState = prev.mLastButtonState
    /\ mFlags \cap GestureFlags = prev.mFlags \cap GestureFlags
    /\ mLastPressTime = prev.mLastPressTime
    /\ mLastClickTime = prev.mLastClickTime
    /\ mLastRepeatPressTime = prev.mLastRepeatPressTime
    /\ kFlagDebouncing \in mFlags
    /\ kFlagDebouncing \in prev.mFlags => mLastDebounceTime = prev.mLastDebounceTime

\* A poll inside an open window, later than its start, whose raw level is
\* back at the confirmed level, during a hold.
C2_Witness ==
  /\ Rejected
  /\ kFlagDebouncing \in prev.mFlags
  /\ clock > prev.mLastDebounceTime
  /\ buttonState = prev.mLastButtonState
  /\ kFlagPressed \in mFlags

\* The poll of a step, as the button finds it: its clock value and raw level
\* are clock' and buttonState'.
\* The poll confirms the release of a hold less than clickDelay after the
\* Pressed event that began it.
QuickRelease(now, level) ==
  /\ ConfirmsRelease(Self, now, level)
  /\ hold.active
  /\ now - hold.since < config.clickDelay

\* The latest release was a quick one that dispatched no DoubleClicked (a
\* single click), and it is less than doubleClickDelay old.
SingleClickOpen(now) ==
  rel.quick /\ ~rel.dbl /\ now - rel.time < config.doubleClickDelay

\* No click is open from before: there was no release yet, or the latest one
\* is doubleClickDelay old, or it ended a hold begun by a Pressed event and
\* was slow or dispatched DoubleClicked.
NoClickOpen(now) ==
  \/ rel.time = -1
  \/ now - rel.time >= config.doubleClickDelay
  \/ rel.held /\ (~rel.quick \/ rel.dbl)

\* C3: with Click, DoubleClick and SuppressClickBeforeDoubleClick enabled, the
\* quick release that follows a single click by less than doubleClickDelay
\* dispatches exactly one DoubleClicked and no Clicked and leaves no click
\* postponed; no other poll dispatches DoubleClicked (the release that follows
\* the release of a button found held at boot aside); no poll between the two
\* releases dispatches Clicked, none does after the DoubleClicked up to the
\* next release, and a Clicked is only ever the deferred one of a postponed
\* click whose window has run out.
C3_DoubleClickPostponed ==
  [][{kFeatureClick, kFeatureDoubleClick, kFeatureSuppressClickBeforeDoubleClick}
        \subseteq features =>
      /\ QuickRelease(clock', buttonState') /\ SingleClickOpen(clock') =>
           /\ Count(dispatched', kEventDoubleClicked) = 1
           /\ ~Has(dispatched', kEventClicked)
           /\ kFlagClickPostponed \notin mFlags'
      /\ ~(QuickRelease(clock', buttonState') /\ SingleClickOpen(clock')) =>
           ~Has(dispatched', kEventDoubleClicked) \/ (rel.time # -1 /\ ~rel.held)
      /\ SingleClickOpen(clock') \/ rel.dbl => ~Has(dispatched', kEventClicked)
      /\ Has(dispatched', kEventClicked) =>
           /\ kFlagClickPostponed \in mFlags
           /\ clock' - mLastClickTime >= config.doubleClickDelay]_vars

\* The second of two quick releases has just dispatched DoubleClicked.
C3_Witness ==
  /\ {kFeatureClick, kFeatureDoubleClick, kFeatureSuppressClickBeforeDoubleClick}
       \subseteq features
  /\ ConfirmsRelease(prev, clock, buttonState)
  /\ rel.quick /\ rel.dbl /\ rel.time = clock
  /\ kFlagClickPostponed \in prev.mFlags
  /\ Gestures(dispatched) = <<kEventDoubleClicked, kEventReleased>>

\* C4: with Click and DoubleClick enabled and SuppressClickBeforeDoubleClick
\* disabled, a quick release with no click open dispatches exactly one Clicked
\* and no DoubleClicked, and the quick release that follows it by less than
\* doubleClickDelay dispatches exactly one DoubleClicked and no Clicked; no
\* other poll dispatches Clicked.
C4_DoubleClickImmediate ==
  [][({kFeatureClick, kFeatureDoubleClick} \subseteq features
        /\ kFeatureSuppressClickBeforeDoubleClick \notin features) =>
      /\ QuickRelease(clock', buttonState') /\ NoClickOpen(clock') =>
           /\ Count(dispatched', kEventClicked) = 1
           /\ ~Has(dispatched', kEventDoubleClicked)
      /\ QuickRelease(clock', buttonState') /\ SingleClickOpen(clock') =>
           /\ Count(dispatched', kEventDoubleClicked) = 1
           /\ ~Has(dispatched', kEventClicked)
      /\ Has(dispatched', kEventClicked) =>
           ConfirmsRelease(Self, clock', buttonState')]_vars

\* Clicked at the first release, DoubleClicked at the second.
C4_Witness ==
  /\ {kFeatureClick, kFeatureDoubleClick} \subseteq features
  /\ kFeatureSuppressClickBeforeDoubleClick \notin features
  /\ ConfirmsRelease(prev, clock, buttonState)
  /\ rel.quick /\ rel.dbl /\ rel.time = clock
  /\ kFlagClicked \in prev.mFlags
  /\ clock - prev.mLastClickTime < config.doubleClickDelay
  /\ Count(dispatched, kEventDoubleClicked) = 1
  /\ ~Has(dispatched, kEventClicked)

\* The latest release was a single click and no press was confirmed since.
SingleClickIdle == rel.quick /\ ~rel.dbl /\ ~hold.active

\* The poll is the first accepted one that sees the latest release
\* doubleClickDelay old.
FirstExpiredPoll(now, level) ==
  /\ ~rel.expired
  /\ GateAccepts(Self, now, level)
  /\ now - rel.time >= config.doubleClickDelay

\* C5: after a single click, while no press is confirmed and the raw level is
\* the released one, the first accepted poll that sees the click
\* doubleClickDelay old dispatches the one deferred Clicked and clears
\* ClickPostponed (postponed mode), or dispatches nothing (immediate mode), and
\* clears Clicked; every other such poll dispatches no gesture event; so no
\* DoubleClicked is dispatched.
C5_OrphanReclamation ==
  [][((kFeatureClick \in features \/ kFeatureDoubleClick \in features)
        /\ SingleClickIdle
        /\ buttonState' = ReleasedLevel(Self)) =>
      IF FirstExpiredPoll(clock', buttonState')
        THEN /\ Gestures(dispatched') =
                  IF kFeatureSuppressClickBeforeDoubleClick \in features
                    THEN <<kEventClicked>> ELSE <<>>
             /\ kFlagClickPostponed \notin mFlags'
             /\ kFlagClicked \notin mFlags'
        ELSE /\ Gestures(dispatched') = <<>>
             /\ ~rel.expired =>
                  /\ kFlagClicked \in mFlags'
                  /\ kFeatureSuppressClickBeforeDoubleClick \in features =>
                       kFlagClickPostponed \in mFlags']_vars

\* The deferred Clicked of a single click has just been dispatched, late.
C5_Witness ==
  /\ kFeatureSuppressClickBeforeDoubleClick \in features
  /\ rel.quick /\ ~rel.dbl /\ ~hold.active /\ rel.expired
  /\ clock > rel.time + config.doubleClickDelay
  /\ Gestures(dispatched) = <<kEventClicked>>
  /\ kFlagClickPostponed \notin mFlags

\* C6: with LongPress enabled, the hold begun by a Pressed event has got
\* exactly one LongPressed if an accepted poll at the active level has seen it
\* longPressDelay old, and none otherwise (none in the poll of the Pressed).
C6_LongPressOnce ==
  kFeatureLongPress \in features =>
    hold.longs = IF hold.due THEN 1 ELSE 0

\* An accepted poll of a hold that got its LongPressed in an earlier poll.
C6_Witness ==
  /\ kFeatureLongPress \in features
  /\ hold.active /\ hold.longs = 1
  /\ Accepted /\ buttonState = ActiveLevel(Self)
  /\ kFlagLongPressed \in prev.mFlags
  /\ clock - hold.since > config.longPressDelay
  /\ ~Has(dispatched, kEventLongPressed)

\* The poll is an accepted one at the active level, of a hold begun by a
\* Pressed event.
HeldPoll(now, level) ==
  /\ hold.active
  /\ GateAccepts(Self, now, level)
  /\ level = ActiveLevel(Self)

\* C7 (as amended): with RepeatPress enabled, a RepeatPressed is dispatched
\* only in an accepted poll at the active level of a hold, one at a time: the
\* first of the hold in the first such poll that sees the hold
\* repeatPressDelay old, each next one in the first such poll that sees the
\* previous RepeatPressed repeatPressInterval old.
C7_RepeatCadence ==
  [][(kFeatureRepeatPress \in features) =>
      /\ Count(dispatched', kEventRepeatPressed) <= 1
      /\ Has(dispatched', kEventRepeatPressed) <=>
           (/\ HeldPoll(clock', buttonState')
            /\ IF hold.first = -1
                 THEN clock' - hold.since >= config.repeatPressDelay
                 ELSE clock' - hold.last >= config.repeatPressInterval)]_vars

\* An accepted poll of a hold at which the fixed schedule is due (the first
\* RepeatPressed plus a multiple of the interval) and nothing is dispatched,
\* the previous RepeatPressed having been late.
C7_Witness ==
  /\ kFeatureRepeatPress \in features
  /\ hold.active /\ hold.first # -1
  /\ Accepted /\ buttonState = ActiveLevel(Self)
  /\ clock >= hold.first + (hold.n + 1) * config.repeatPressInterval
  /\ clock < hold.last + config.repeatPressInterval
  /\ ~Has(dispatched, kEventRepeatPressed)

\* C7 (as claimed): the k-th RepeatPressed after the first is dispatched in
\* the first accepted poll with now >= (time of the first) + k * interval.
C7_AsClaimed ==
  [][(kFeatureRepeatPress \in features) =>
      (Has(dispatched', kEventRepeatPressed) <=>
         /\ HeldPoll(clock', buttonState')
         /\ IF hold.first = -1
              THEN clock' - hold.since >= config.repeatPressDelay
              ELSE clock' >= hold.first
                               + (hold.n + 1) * config.repeatPressInterval)]_vars

\* The HeartBeat events of ev.
HeartBeats(ev) == SelectSeq(ev, LAMBDA e : e.eventType = kEventHeartBeat)

\* C8: with HeartBeat enabled the first poll sets HeartRunning and
\* lastHeartBeatTime and dispatches no HeartBeat; every later poll that sees
\* lastHeartBeatTime heartBeatInterval old dispatches exactly one HeartBeat,
\* carrying the level confirmed before the poll, and refreshes
\* lastHeartBeatTime, whether the gate accepts the poll or not; any other
\* poll dispatches none; with HeartBeat disabled none is ever dispatched.
C8_HeartBeat ==
  /\ kFeatureHeartBeat \notin features => HeartBeats(dispatched) = <<>>
  /\ kFeatureHeartBeat \in features /\ polls = 1 =>
       /\ kFlagHeartRunning \in mFlags
       /\ mLastHeartBeatTime = clock
       /\ HeartBeats(dispatched) = <<>>
  /\ kFeatureHeartBeat \in features /\ polls > 1 =>
       /\ kFlagHeartRunning \in mFlags
       /\ IF clock - prev.mLastHeartBeatTime >= config.heartBeatInterval
            THEN /\ HeartBeats(dispatched) =
                      <<[eventType |-> kEventHeartBeat,
                         buttonState |-> prev.mLastButtonState]>>
                 /\ mLastHeartBeatTime = clock
            ELSE /\ HeartBeats(dispatched) = <<>>
                 /\ mLastHeartBeatTime = prev.mLastHeartBeatTime

\* A HeartBeat of a button never pressed, in a rejected poll whose raw level
\* is not the level the event carries.
C8_Witness ==
  /\ kFeatureHeartBeat \in features
  /\ Rejected
  /\ hold.since = -1
  /\ prev.mLastButtonState # kButtonStateUnknown
  /\ buttonState # prev.mLastButtonState
  /\ Len(HeartBeats(dispatched)) = 1

\* The latest poll confirmed a release.
Released == Polled /\ ConfirmsRelease(prev, clock, buttonState)

\* Whether an enabled suppress feature matches a flag that is set when the
\* release is processed: LongPressed and RepeatPressed as the poll found them,
\* Clicked as the click evaluation of the poll leaves it, DoubleClicked set by
\* that evaluation exactly when it dispatches DoubleClicked.
Suppressed ==
  \/ kFlagLongPressed \in prev.mFlags
       /\ kFeatureSuppressAfterLongPress \in features
  \/ kFlagRepeatPressed \in prev.mFlags
       /\ kFeatureSuppressAfterRepeatPress \in features
  \/ kFlagClicked \in mFlags /\ kFeatureSuppressAfterClick \in features
  \/ Has(dispatched, kEventDoubleClicked)
       /\ kFeatureSuppressAfterDoubleClick \in features

\* C9: a confirmed release dispatches at most one of Released and
\* LongReleased, Released exactly when no enabled suppress feature matches a
\* set flag; with SuppressAfterLongPress enabled the release of a hold that
\* got a LongPressed dispatches one LongReleased and no Released.
C9_Suppression ==
  Released =>
    /\ Count(dispatched, kEventReleased) + Count(dispatched, kEventLongReleased) <= 1
    /\ Has(dispatched, kEventReleased) <=> ~Suppressed
    /\ kFeatureSuppressAfterLongPress \in features /\ rel.held /\ hold.longs >= 1 =>
         /\ Count(dispatched, kEventLongReleased) = 1
         /\ ~Has(dispatched, kEventReleased)

\* The release of a long hold, under SuppressAfterLongPress.
C9_Witness ==
  /\ Released
  /\ kFeatureSuppressAfterLongPress \in features
  /\ rel.held /\ hold.longs = 1
  /\ Count(dispatched, kEventLongReleased) = 1

\* C10: while the level is Unknown a rejected poll leaves it Unknown and the
\* first accepted poll sets it to that poll's raw level; no poll that starts
\* with the level Unknown dispatches a gesture event; a known level never
\* becomes Unknown again.
C10_NoEventOnBoot ==
  /\ ~Polled => mLastButtonState = kButtonStateUnknown
  /\ Polled /\ prev.mLastButtonState = kButtonStateUnknown =>
       /\ Gestures(dispatched) = <<>>
       /\ Rejected => mLastButtonState = kButtonStateUnknown
       /\ Accepted => mLastButtonState = buttonState
  /\ prev.mLastButtonState # kButtonStateUnknown =>
       mLastButtonState # kButtonStateUnknown

\* The first accepted poll finds the button held.
C10_Witness ==
  /\ Accepted
  /\ prev.mLastButtonState = kButtonStateUnknown
  /\ mLastButtonState = ActiveLevel(Self)
  /\ dispatched = <<>>

\* C11: when the clock wraps past its maximum once between the recorded
\* timestamp and now, every elapsed-time check sees the time that truly
\* passed: a poll that finds the debounce window open debounceDelay or more
\* true ticks after it was opened is accepted and closes the window, and a
\* poll that comes heartBeatInterval or more true ticks after the latest
\* heart beat time dispatches HeartBeat, whether or not the value of now is
\* numerically below the timestamp.
C11_WrapTolerance ==
  Polled =>
    /\ (kFlagDebouncing \in prev.mFlags
          /\ TrueElapsed(prev.mLastDebounceTime, clock) >= config.debounceDelay) =>
         kFlagDebouncing \notin mFlags
    /\ (kFlagHeartRunning \in prev.mFlags /\ kFeatureHeartBeat \in features
          /\ TrueElapsed(prev.mLastHeartBeatTime, clock) >= config.heartBeatInterval) =>
         Has(dispatched, kEventHeartBeat)

\* The click evaluation of the latest poll, a confirmed release, recorded a
\* single click: it found the press time less than clickDelay old and
\* dispatched no DoubleClicked.
SingleClickRecorded ==
  /\ kFeatureClick \in features \/ kFeatureDoubleClick \in features
  /\ clock - prev.mLastPressTime < config.clickDelay
  /\ ~Has(dispatched, kEventDoubleClicked)

\* C12 (as amended): at the end of every poll that confirms a release the
\* flags Debouncing, Pressed, LongPressed, RepeatPressed and DoubleClicked are
\* clear; Clicked is set exactly when the release was recorded as a single
\* click; ClickPostponed is clear when the release dispatched DoubleClicked
\* and set when it was recorded as a single click under
\* SuppressClickBeforeDoubleClick.
C12_ReleaseFlags ==
  Released =>
    /\ mFlags \cap {kFlagDebouncing, kFlagPressed, kFlagLongPressed,
                    kFlagRepeatPressed, kFlagDoubleClicked} = {}
    /\ kFlagClicked \in mFlags <=> SingleClickRecorded
    /\ Has(dispatched, kEventDoubleClicked) => kFlagClickPostponed \notin mFlags
    /\ SingleClickRecorded /\ kFeatureSuppressClickBeforeDoubleClick \in features =>
         kFlagClickPostponed \in mFlags

\* A quick release under SuppressClickBeforeDoubleClick: it clears Pressed and
\* leaves Clicked and ClickPostponed set.
C12_Witness ==
  /\ Released
  /\ rel.quick
  /\ kFlagPressed \in prev.mFlags
  /\ mFlags \cap GestureFlags = {kFlagClicked, kFlagClickPostponed}

\* C12 (as claimed): at the end of every poll that confirms a release the
\* flags Debouncing, Pressed, LongPressed, RepeatPressed, Clicked,
\* DoubleClicked and ClickPostponed are all clear.
C12_AsClaimed ==
  Released =>
    mFlags \cap {kFlagDebouncing, kFlagPressed, kFlagLongPressed, kFlagRepeatPressed,
                 kFlagClicked, kFlagDoubleClicked, kFlagClickPostponed} = {}

\* Whether the events of types ty come in the order of the stages given by
\* stage, at most one event to a stage.
InStageOrder(ty, stage) ==
  \A i, j \in DOMAIN ty : i < j => stage[ty[i]] < stage[ty[j]]

\* The stage of checkState() that dispatches each type of event.  With the
\* features fixed a Clicked is the deferred one of the click cleanup exactly
\* when SuppressClickBeforeDoubleClick is enabled, and the one of the click
\* evaluation of a release otherwise.
StageOf(heart, cleanup, long, repeat, change, release) ==
  [e \in {kEventHeartBeat, kEventClicked, kEventLongPressed, kEventRepeatPressed,
          kEventPressed, kEventDoubleClicked, kEventReleased, kEventLongReleased} |->
     CASE e = kEventHeartBeat -> heart
       [] e = kEventClicked ->
            IF kFeatureSuppressClickBeforeDoubleClick \in features
              THEN cleanup ELSE change
       [] e = kEventLongPressed -> long
       [] e = kEventRepeatPressed -> repeat
       [] e \in {kEventPressed, kEventDoubleClicked} -> change
       [] OTHER -> release]

\* C13 (as amended): the checks of a poll run and dispatch in the order heart
\* beat, click cleanup (the flush of the postponed click, then the orphan
\* reclaim), long press, repeat press, change detection (Pressed, or the click
\* evaluation and then Released or LongReleased), each dispatching at most
\* one event; so a poll that dispatches LongPressed or RepeatPressed and the
\* deferred Clicked dispatches the Clicked before them.
C13_CheckOrder ==
  InStageOrder(Types(dispatched), StageOf(0, 1, 2, 3, 4, 5))

\* A poll of a hold that dispatches HeartBeat, the deferred Clicked of the
\* click before the hold, LongPressed and RepeatPressed.
C13_Witness ==
  /\ Accepted
  /\ kFlagClickPostponed \in prev.mFlags
  /\ Types(dispatched) = <<kEventHeartBeat, kEventClicked, kEventLongPressed,
                           kEventRepeatPressed>>

\* C13 (as claimed): the order is heart beat, long press, repeat press, click
\* cleanup, change detection, so the deferred Clicked comes after LongPressed
\* and RepeatPressed.
C13_AsClaimed ==
  InStageOrder(Types(dispatched), StageOf(0, 3, 1, 2, 4, 5))

\* The latest poll dispatched Pressed, Released or LongReleased.
Transition ==
  \/ Has(dispatched, kEventPressed)
  \/ Has(dispatched, kEventReleased)
  \/ Has(dispatched, kEventLongReleased)

\* C14 (as amended): Pressed, Released or LongReleased is dispatched only in
\* a poll that closes a debounce window opened debounceDelay or more earlier,
\* the raw level being the new level at the poll that opened the window and
\* at the dispatching poll; the raw levels of the polls between the two are
\* not looked at.
C14_DebounceEnds ==
  Transition =>
    /\ kFlagDebouncing \in prev.mFlags
    /\ kFlagDebouncing \notin mFlags
    /\ clock - prev.mLastDebounceTime >= config.debounceDelay
    /\ window.level = buttonState
    /\ buttonState # prev.mLastButtonState
    /\ mLastButtonState = buttonState

\* A Pressed dispatched although a poll inside the window, less than
\* debounceDelay earlier, saw the raw level back at the released level.
C14_Witness ==
  /\ Has(dispatched, kEventPressed)
  /\ window.bounce > clock - config.debounceDelay
  /\ window.bounce < clock
  /\ window.bounce > prev.mLastDebounceTime

\* C14 (as claimed): Pressed or Released is dispatched only if no poll made
\* during the debounceDelay before the dispatching poll saw a raw level other
\* than the new one.
C14_AsClaimed ==
  Has(dispatched, kEventPressed) \/ Has(dispatched, kEventReleased) =>
    ~(window.bounce > clock - config.debounceDelay /\ window.bounce < clock)

\* C15: however the Click and DoubleClick features are switched between
\* polls, DoubleClicked is dispatched only in a poll that confirms a release
\* and finds the press time less than clickDelay old, the Clicked flag set
\* and the click time less than doubleClickDelay old, and only once in it;
\* and every accepted poll with a known level and a click feature enabled,
\* which are the polls where the click evaluation can run, ends with Clicked
\* clear or the click time less than doubleClickDelay old.
C15_NoStalePairing ==
  [][(features' = features) =>
      /\ Has(dispatched', kEventDoubleClicked) =>
           /\ ConfirmsRelease(Self, clock', buttonState')
           /\ clock' - mLastPressTime < config.clickDelay
           /\ kFlagClicked \in mFlags
           /\ clock' - mLastClickTime < config.doubleClickDelay
           /\ Count(dispatched', kEventDoubleClicked) = 1
      /\ (/\ kFeatureClick \in features \/ kFeatureDoubleClick \in features
          /\ GateAccepts(Self, clock', buttonState')
          /\ mLastButtonState # kButtonStateUnknown
          /\ kFlagClicked \in mFlags') =>
           clock' - mLastClickTime' < config.doubleClickDelay]_vars

\* A DoubleClicked after the features were switched: the first click was
\* recorded with DoubleClick disabled, the second is evaluated with Click
\* disabled.
C15_Witness ==
  /\ Has(dispatched, kEventDoubleClicked)
  /\ kFeatureClick \notin features
  /\ kFeatureDoubleClick \in features
  /\ clock - prev.mLastClickTime = config.doubleClickDelay - 1

\* C16: no two consecutive confirmed releases both dispatch DoubleClicked;
\* the poll that dispatches DoubleClicked ends with Clicked clear; and the
\* quick release that follows a release that dispatched DoubleClicked is
\* recorded as a fresh single click: no DoubleClicked, Clicked set, the click
\* time refreshed, and the Clicked event dispatched once or, under
\* SuppressClickBeforeDoubleClick, postponed.
C16_NoChaining ==
  /\ ~(rel.dbl /\ rel.afterDbl)
  /\ Has(dispatched, kEventDoubleClicked) => kFlagClicked \notin mFlags
  /\ Released /\ rel.afterDbl /\ rel.quick =>
       /\ ~Has(dispatched, kEventDoubleClicked)
       /\ kFlagClicked \in mFlags
       /\ mLastClickTime = clock
       /\ IF kFeatureSuppressClickBeforeDoubleClick \in features
            THEN kFlagClickPostponed \in mFlags /\ ~Has(dispatched, kEventClicked)
            ELSE Count(dispatched, kEventClicked) = 1

\* The third of three quick clicks, still less than doubleClickDelay after
\* the first.
C16_Witness ==
  /\ Released
  /\ rel.afterDbl /\ rel.quick
  /\ kFeatureDoubleClick \in features
  /\ clock - prev.mLastClickTime < config.doubleClickDelay
  /\ kFlagClicked \in mFlags

\* C17: with Click, DoubleClick and SuppressClickBeforeDoubleClick enabled,
\* checkClicked() never records a new single click while the postponed click
\* of an earlier release is pending: the quick release of a hold, in a poll
\* that finds such a click pending, dispatches the deferred Clicked of the
\* earlier click or the DoubleClicked that supersedes it.
C17_NoLostClick ==
  [][({kFeatureClick, kFeatureDoubleClick, kFeatureSuppressClickBeforeDoubleClick}
        \subseteq features
      /\ rel.pending
      /\ QuickRelease(clock', buttonState')) =>
     (Has(dispatched', kEventClicked) \/ Has(dispatched', kEventDoubleClicked))]_vars

\* C18 (as amended): at the end of every poll with the level known, the
\* Pressed flag is set exactly during a hold begun by a Pressed event, and
\* then the level is the active one; the level is the active one with
\* Pressed clear only for a button found held at the first accepted poll,
\* from that poll until its release is confirmed.
C18_PressedMeansHeld ==
  mLastButtonState # kButtonStateUnknown =>
    /\ kFlagPressed \in mFlags <=> hold.active
    /\ kFlagPressed \in mFlags => mLastButtonState = ActiveLevel(Self)
    /\ (mLastButtonState = ActiveLevel(Self) /\ kFlagPressed \notin mFlags) =>
         hold.since = -1 /\ rel.time = -1

\* A button found held, several polls after the first accepted one.
C18_Witness ==
  /\ Accepted
  /\ prev.mLastButtonState = ActiveLevel(Self)
  /\ mLastButtonState = ActiveLevel(Self)
  /\ buttonState = ActiveLevel(Self)
  /\ kFlagPressed \notin mFlags
  /\ clock > config.debounceDelay + 1

\* C18 (as claimed): at the end of every poll with the level known, the
\* Pressed flag is set if and only if the level is the active one.
C18_AsClaimed ==
  mLastButtonState # kButtonStateUnknown =>
    (kFlagPressed \in mFlags <=> mLastButtonState = ActiveLevel(Self))

\* C19: at the end of every poll LongPressed is set only with Pressed,
\* RepeatPressed is set only with Pressed, the DoubleClicked flag is clear,
\* and so Clicked and DoubleClicked are not both set; the poll in which
\* DoubleClicked was set, the one that dispatches the event, ends with Clicked
\* clear as well.
C19_FlagConsistency ==
  /\ kFlagLongPressed \in mFlags => kFlagPressed \in mFlags
  /\ kFlagRepeatPressed \in mFlags => kFlagPressed \in mFlags
  /\ kFlagDoubleClicked \notin mFlags
  /\ ~({kFlagClicked, kFlagDoubleClicked} \subseteq mFlags)
  /\ Has(dispatched, kEventDoubleClicked) =>
       mFlags \cap {kFlagClicked, kFlagDoubleClicked} = {}

\* A hold with RepeatPressed set, after a release that dispatched
\* DoubleClicked.
C19_Witness ==
  /\ {kFlagPressed, kFlagRepeatPressed} \subseteq mFlags
  /\ rel.dbl
  /\ hold.active

\* C20: a DoubleClicked, or the recording of a single click, belongs to the
\* release of a hold begun by a Pressed event less than clickDelay earlier;
\* the release of a button found held at the first accepted poll dispatches
\* no Clicked and no DoubleClicked and ends with Clicked and ClickPostponed
\* clear, whatever the clock value.
C20_ClicksNeedPress ==
  /\ Has(dispatched, kEventDoubleClicked) => Released /\ rel.held /\ rel.quick
  /\ (Released /\ ~(rel.held /\ rel.quick)) =>
       /\ ~Has(dispatched, kEventDoubleClicked)
       /\ kFlagClicked \notin mFlags
       /\ kFlagClickPostponed \in mFlags => kFlagClickPostponed \in prev.mFlags
  /\ (Released /\ ~rel.held) =>
       /\ ~Has(dispatched, kEventClicked)
       /\ mFlags \cap {kFlagClicked, kFlagClickPostponed} = {}
====
